---- MODULE Spec2Model ----
(***************************************************************************)
(* The next-fit allocator of mm.c: an intrusive circular list of block     *)
(* headers over a host-supplied arena [memory_start, memory_end).          *)
(*                                                                         *)
(* Addresses and sizes are byte counts.  A header is one word, the `next`  *)
(* field: the successor's address with the free flag in bit 0.  `mem` maps *)
(* the address of every word that currently is a block header to that      *)
(* word; payload bytes are not modelled, and a header that a merge turns   *)
(* into payload leaves `mem`.  size_t / uintptr_t arithmetic is taken      *)
(* modulo 2^SizeBits; sizeof(BlockHeader), sizeof(uintptr_t) and the       *)
(* 64 of simple_init keep the values of the 64-bit build.                  *)
(*                                                                         *)
(* An access to a header outside the arena, a read of a word that holds no *)
(* header, or a search that does not come back to its start has no defined *)
(* outcome: the model records it in `fault` and follows the run no further.*)
(***************************************************************************)
EXTENDS Integers, Sequences, FiniteSets, TLC

VARIABLES
    memory_start,   \* mm.c:28, set by the host
    memory_end,     \* mm.c:28, set by the host
    first,          \* mm.c:30
    current,        \* mm.c:31, the roving cursor
    last,           \* mm.c:32
    mem,            \* the header words of the arena
    fault,          \* "none", or the undefined behaviour the run has met
    live,           \* caller's view: returned and not yet released pointer -> requested size
    call,           \* the last call: [op, arg, ret, path, iters]
    old,            \* the allocator state that call started from
    test            \* locals of test_not_first_fit_strategy (check_mm.c:51-74)

vars == <<memory_start, memory_end, first, current, last, mem, fault, live, call, old, test>>

----------------------------------------------------------------------------
(* Bounds of the model *)

\* width of size_t and uintptr_t in the model (64 in the build)
SizeBits == 10
\* most pointers the caller holds at once (16 in test_memory_exerciser)
MaxLive == 3

Modulus == 2 ^ SizeBits
SIZE_MAX == Modulus - 1
Wrap(x) == x % Modulus

----------------------------------------------------------------------------
(* Program constants *)

NULL == 0
MIN_SIZE == 8
\* sizeof(BlockHeader): one pointer, the zero-length user_block adds nothing
HeaderSize == 8
\* sizeof(uintptr_t)
WordSize == 8

----------------------------------------------------------------------------
(* Header primitives, mm.c:21-25.  m is a header memory, p an address.     *)

Poke(m, p, w) == [a \in (DOMAIN m) \cup {p} |-> IF a = p THEN w ELSE m[a]]
Drop(m, p) == [a \in (DOMAIN m) \ {p} |-> m[a]]
\* the word at p before the allocator's first write to it holds g
Uninit(m, p, g) == IF p \in DOMAIN m THEN m ELSE Poke(m, p, g)

GET_NEXT(m, p) == m[p] - (m[p] % 2)
SET_NEXT(m, p, n) == Poke(m, p, (n - (n % 2)) + (m[p] % 2))
GET_FREE(m, p) == m[p] % 2
SET_FREE(m, p, f) == Poke(m, p, GET_NEXT(m, p) + (IF f # 0 THEN 1 ELSE 0))
SIZE(m, p) == Wrap(GET_NEXT(m, p) - p - HeaderSize)

align_up(x, align) ==
    LET y == Wrap(x + (align - 1)) IN y - (y % align)

\* the header at p lies inside [memory_start, memory_end)
InArena(p) == memory_start <= p /\ p + HeaderSize <= memory_end
Readable(m, p) == p \in DOMAIN m /\ InArena(p)

\* the allocator's own state, as the functions below take and return it
State == [first |-> first, current |-> current, last |-> last, mem |-> mem, fault |-> fault]
Faulted(S, f) == [S EXCEPT !.fault = f]

----------------------------------------------------------------------------
\* coalesceNext with its test of curr's flag inverted
coalesceNextBusy(m, curr) ==
    LET next == GET_NEXT(m, curr) IN
    IF GET_FREE(m, next) = 1 /\ GET_FREE(m, curr) = 0
    THEN [ok |-> 1, mem |-> Drop(SET_NEXT(m, curr, GET_NEXT(m, next)), next)]
    ELSE [ok |-> 0, mem |-> m]

(* mm.c:46-53 *)
coalesceNext(m, curr) ==
    LET next == GET_NEXT(m, curr) IN
    IF GET_FREE(m, next) = 1 /\ GET_FREE(m, curr) = 1
    THEN [ok |-> 1, mem |-> Drop(SET_NEXT(m, curr, GET_NEXT(m, next)), next)]
    ELSE [ok |-> 0, mem |-> m]

(* mm.c:57-58 *)
AlignedStart == Wrap(memory_start + (memory_start % (WordSize * 8)))
(* mm.c:59 *)
AlignedEnd == memory_end - (memory_end % (WordSize * 8))
\* the capacity check without the room for two headers and MIN_SIZE
CapacityOkLoose == AlignedStart <= AlignedEnd

(* mm.c:62 *)
CapacityOk == Wrap(AlignedStart + 2 * HeaderSize + MIN_SIZE) <= AlignedEnd
(* mm.c:64: the cast binds before the subtraction, which then counts headers *)
LastAddress == Wrap(AlignedEnd - HeaderSize * HeaderSize)

\* simple_init without the `first == NULL` guard of mm.c:61
simple_initAlways(S, g) ==
    IF CapacityOk
    THEN LET f == AlignedStart
             l == LastAddress
             m0 == Uninit(Uninit(S.mem, f, g), l, g)
             m1 == SET_FREE(m0, f, 1)
             m2 == SET_NEXT(m1, f, l)
             m3 == SET_NEXT(m2, l, f)
             m4 == SET_FREE(m3, l, 0)
         IN  [first |-> f, current |-> f, last |-> l, mem |-> m4,
              fault |-> IF InArena(f) /\ InArena(l) THEN S.fault ELSE "oob"]
    ELSE S

\* simple_init that never clears last's free flag (mm.c:68 left out)
simple_initLastFree(S, g) ==
    IF S.first = NULL /\ CapacityOk
    THEN LET f == AlignedStart
             l == LastAddress
             m0 == Uninit(Uninit(S.mem, f, g), l, g)
             m1 == SET_FREE(m0, f, 1)
             m2 == SET_NEXT(m1, f, l)
             m3 == SET_NEXT(m2, l, f)
         IN  [first |-> f, current |-> f, last |-> l, mem |-> m3,
              fault |-> IF InArena(f) /\ InArena(l) THEN S.fault ELSE "oob"]
    ELSE S

(* mm.c:55-72 *)
simple_init(S, g) ==
    IF S.first = NULL /\ CapacityOk
    THEN LET f == AlignedStart
             l == LastAddress
             m0 == Uninit(Uninit(S.mem, f, g), l, g)
             m1 == SET_FREE(m0, f, 1)
             m2 == SET_NEXT(m1, f, l)
             m3 == SET_NEXT(m2, l, f)
             m4 == SET_FREE(m3, l, 0)
         IN  [first |-> f, current |-> f, last |-> l, mem |-> m4,
              fault |-> IF InArena(f) /\ InArena(l) THEN S.fault ELSE "oob"]
    ELSE S

----------------------------------------------------------------------------
(* simple_malloc, mm.c:74-147 *)

\* Split that never links the block at S.current to new_block (mm.c:107 left out)
SplitUnlinked(S, aligned_size, g) ==
    LET cur == S.current
        m == S.mem
        new_block == Wrap(cur + HeaderSize + aligned_size)
        next == GET_NEXT(m, cur)
    IN  IF ~InArena(new_block) THEN [allocated |-> 0, st |-> Faulted(S, "oob")]
        ELSE LET m1 == SET_FREE(Uninit(m, new_block, g), new_block, 1) IN
        IF ~Readable(m1, next) THEN [allocated |-> 0, st |-> Faulted(S, "wild")]
        ELSE LET m2 == IF GET_FREE(m1, next) = 1
                       THEN SET_NEXT(m1, new_block, GET_NEXT(m1, next))
                       ELSE SET_NEXT(m1, new_block, next)
                 m4 == SET_FREE(m2, cur, 0)
             IN  [allocated |-> 1, st |-> [S EXCEPT !.mem = m4]]

\* mm.c:96-110: carve aligned_size out of the free block at S.current
Split(S, aligned_size, g) ==
    LET cur == S.current
        m == S.mem
        new_block == Wrap(cur + HeaderSize + aligned_size)
        next == GET_NEXT(m, cur)
    IN  IF ~InArena(new_block) THEN [allocated |-> 0, st |-> Faulted(S, "oob")]
        ELSE LET m1 == SET_FREE(Uninit(m, new_block, g), new_block, 1) IN
        IF ~Readable(m1, next) THEN [allocated |-> 0, st |-> Faulted(S, "wild")]
        ELSE LET absorb == GET_FREE(m1, next) = 1
                 m2 == IF absorb
                       THEN SET_NEXT(m1, new_block, GET_NEXT(m1, next))
                       ELSE SET_NEXT(m1, new_block, next)
                 m3 == SET_NEXT(m2, cur, new_block)
                 m4 == SET_FREE(m3, cur, 0)
                 m5 == IF absorb /\ next \notin {cur, new_block} THEN Drop(m4, next) ELSE m4
             IN  [allocated |-> 1, st |-> [S EXCEPT !.mem = m5]]

\* mm.c:88-126: the body of `if (GET_FREE(current))`
Attempt(S, aligned_size, g) ==
    LET cur == S.current
        m == S.mem
    IN  IF SIZE(m, cur) >= aligned_size
        THEN IF Wrap(SIZE(m, cur) - aligned_size) < HeaderSize + MIN_SIZE
             THEN [allocated |-> 1, returned |-> FALSE, path |-> "whole",
                   st |-> [S EXCEPT !.mem = SET_FREE(m, cur, 0)]]
             ELSE LET r == Split(S, aligned_size, g)
                  IN  [allocated |-> r.allocated, returned |-> FALSE, path |-> "split", st |-> r.st]
        ELSE LET next == GET_NEXT(m, cur) IN
             IF next = NULL
             THEN [allocated |-> 0, returned |-> FALSE, path |-> "none", st |-> S]
             ELSE IF ~Readable(m, next)
             THEN [allocated |-> 0, returned |-> FALSE, path |-> "none", st |-> Faulted(S, "wild")]
             ELSE IF GET_FREE(m, next) = 1
                     /\ Wrap(SIZE(m, cur) + SIZE(m, next) + HeaderSize) >= aligned_size
             THEN LET c == coalesceNext(m, cur) IN
                  IF c.ok = 1
                  THEN [allocated |-> 1, returned |-> FALSE, path |-> "merge",
                        st |-> [S EXCEPT !.mem = SET_FREE(c.mem, cur, 0)]]
                  ELSE [allocated |-> 0, returned |-> TRUE, path |-> "none", st |-> S]
             ELSE [allocated |-> 0, returned |-> FALSE, path |-> "none", st |-> S]

\* Finish that sends the cursor back to first (a first-fit allocator)
FinishAtFirst(S, path, iters) ==
    [ret |-> Wrap(S.current + HeaderSize), st |-> [S EXCEPT !.current = S.first],
     path |-> path, iters |-> iters]

\* mm.c:128-140: hand the block at S.current out and move the cursor past it
Finish(S, path, iters) ==
    LET cur == S.current
        currAdd == Wrap(cur + HeaderSize)
        nxt == GET_NEXT(S.mem, cur)
        S1 == [S EXCEPT !.current = nxt]
    IN  IF nxt > memory_end
        THEN [ret |-> NULL, st |-> S1, path |-> path, iters |-> iters]
        ELSE IF ~Readable(S.mem, nxt)
        THEN [ret |-> NULL, st |-> Faulted(S1, "wild"), path |-> path, iters |-> iters]
        ELSE IF GET_NEXT(S.mem, nxt) = NULL
        THEN [ret |-> currAdd, st |-> [S1 EXCEPT !.mem = SET_NEXT(S.mem, nxt, S.last)],
              path |-> path, iters |-> iters]
        ELSE [ret |-> currAdd, st |-> S1, path |-> path, iters |-> iters]

\* Search whose loop ends at first instead of at search_start
RECURSIVE SearchToFirst(_, _, _, _, _)
SearchToFirst(S, search_start, aligned_size, g, n) ==
    LET cur == S.current
        m == S.mem
    IN  IF n > Cardinality(DOMAIN m)
        THEN [ret |-> NULL, st |-> Faulted(S, "hang"), path |-> "none", iters |-> n]
        ELSE IF ~Readable(m, cur)
        THEN [ret |-> NULL, st |-> Faulted(S, "wild"), path |-> "none", iters |-> n]
        ELSE LET a == IF GET_FREE(m, cur) = 1
                      THEN Attempt(S, aligned_size, g)
                      ELSE [allocated |-> 0, returned |-> FALSE, path |-> "none", st |-> S]
             IN  IF a.st.fault # "none" \/ a.returned
                 THEN [ret |-> NULL, st |-> a.st, path |-> "none", iters |-> n + 1]
                 ELSE IF a.allocated = 1
                 THEN Finish(a.st, a.path, n + 1)
                 ELSE LET S1 == [S EXCEPT !.current = GET_NEXT(m, cur)] IN
                      IF S1.current = S.first
                      THEN [ret |-> NULL, st |-> S1, path |-> "none", iters |-> n + 1]
                      ELSE SearchToFirst(S1, search_start, aligned_size, g, n + 1)

\* Search whose loop ends at a NULL link instead of at search_start
RECURSIVE SearchToNull(_, _, _, _, _)
SearchToNull(S, search_start, aligned_size, g, n) ==
    LET cur == S.current
        m == S.mem
    IN  IF n > Cardinality(DOMAIN m)
        THEN [ret |-> NULL, st |-> Faulted(S, "hang"), path |-> "none", iters |-> n]
        ELSE IF ~Readable(m, cur)
        THEN [ret |-> NULL, st |-> Faulted(S, "wild"), path |-> "none", iters |-> n]
        ELSE LET a == IF GET_FREE(m, cur) = 1
                      THEN Attempt(S, aligned_size, g)
                      ELSE [allocated |-> 0, returned |-> FALSE, path |-> "none", st |-> S]
             IN  IF a.st.fault # "none" \/ a.returned
                 THEN [ret |-> NULL, st |-> a.st, path |-> "none", iters |-> n + 1]
                 ELSE IF a.allocated = 1
                 THEN Finish(a.st, a.path, n + 1)
                 ELSE LET S1 == [S EXCEPT !.current = GET_NEXT(m, cur)] IN
                      IF S1.current = NULL
                      THEN [ret |-> NULL, st |-> S1, path |-> "none", iters |-> n + 1]
                      ELSE SearchToNull(S1, search_start, aligned_size, g, n + 1)

\* mm.c:86-143: the do-while loop; n counts the iterations started so far
RECURSIVE Search(_, _, _, _, _)
Search(S, search_start, aligned_size, g, n) ==
    LET cur == S.current
        m == S.mem
    IN  IF n > Cardinality(DOMAIN m)
        THEN [ret |-> NULL, st |-> Faulted(S, "hang"), path |-> "none", iters |-> n]
        ELSE IF ~Readable(m, cur)
        THEN [ret |-> NULL, st |-> Faulted(S, "wild"), path |-> "none", iters |-> n]
        ELSE LET a == IF GET_FREE(m, cur) = 1
                      THEN Attempt(S, aligned_size, g)
                      ELSE [allocated |-> 0, returned |-> FALSE, path |-> "none", st |-> S]
             IN  IF a.st.fault # "none" \/ a.returned
                 THEN [ret |-> NULL, st |-> a.st, path |-> "none", iters |-> n + 1]
                 ELSE IF a.allocated = 1
                 THEN Finish(a.st, a.path, n + 1)
                 ELSE LET S1 == [S EXCEPT !.current = GET_NEXT(m, cur)] IN
                      IF S1.current = search_start
                      THEN [ret |-> NULL, st |-> S1, path |-> "none", iters |-> n + 1]
                      ELSE Search(S1, search_start, aligned_size, g, n + 1)

\* simple_malloc that restarts every search at first
simple_mallocFromFirst(S0, size, g) ==
    LET S == IF S0.first = NULL THEN simple_init(S0, g) ELSE S0 IN
    IF S.first = NULL \/ S.fault # "none"
    THEN [ret |-> NULL, st |-> S, path |-> "none", iters |-> 0]
    ELSE Search([S EXCEPT !.current = S.first], S.first, align_up(size, WordSize), g, 0)

(* mm.c:74-147 *)
simple_malloc(S0, size, g) ==
    LET S == IF S0.first = NULL THEN simple_init(S0, g) ELSE S0 IN
    IF S.first = NULL \/ S.fault # "none"
    THEN [ret |-> NULL, st |-> S, path |-> "none", iters |-> 0]
    ELSE Search(S, S.current, align_up(size, WordSize), g, 0)

\* simple_free that first sends the cursor back to first
simple_freeResetCursor(S, ptr) ==
    LET S1 == [S EXCEPT !.current = S.first] IN
    IF ptr = NULL THEN S1
    ELSE LET block == Wrap(ptr - HeaderSize) IN
         IF ~Readable(S1.mem, block) THEN Faulted(S1, "wild")
         ELSE IF GET_FREE(S1.mem, block) = 1 THEN S1
         ELSE [S1 EXCEPT !.mem = SET_FREE(S1.mem, block, 1)]

(* mm.c:149-158 *)
simple_free(S, ptr) ==
    IF ptr = NULL THEN S
    ELSE LET block == Wrap(ptr - HeaderSize) IN
         IF ~Readable(S.mem, block) THEN Faulted(S, "wild")
         ELSE IF GET_FREE(S.mem, block) = 1 THEN S
         ELSE [S EXCEPT !.mem = SET_FREE(S.mem, block, 1)]

----------------------------------------------------------------------------
(* The host and the caller *)

\* contents an arena word can hold before the allocator writes it
Junk == {0, SIZE_MAX}

\* request sizes: zero, below MIN_SIZE, word multiples, unaligned, and one
\* whose round-up wraps
Sizes == {0, 4, 8, 12, 24, SIZE_MAX}

\* arenas of the caller under test: word-aligned start, room for first and
\* for last below it (first = 80 or 96, last = 128)
HostArenas == {<<72, 200>>, <<80, 192>>}

\* arenas of any host: also unaligned starts (82, 90), capacities of at most
\* 64 bytes that pass the check of mm.c:62 (<<64, 128>>, <<72, 128>>,
\* <<40, 128>>) and capacities that fail it (0 for <<64, 80>>, 16 for
\* <<120, 260>>, below 0 for <<100, 120>>)
AnyArenas == {<<80, 192>>, <<82, 192>>, <<90, 192>>, <<64, 128>>, <<72, 128>>,
              <<40, 128>>, <<64, 80>>, <<120, 260>>, <<100, 120>>}

\* arenas for test_not_first_fit_strategy: too small for three blocks of 80
\* bytes, just large enough, and with room to spare
TestArenas == {<<s, e>> : s \in {64, 66, 72, 100}, e \in {320, 384, 448, 512, 576, 640}}

(* check_mm.c:54 *)
TestSize == 20 * 4

EmptyMem == [a \in {} |-> 0]
NoCall == [op |-> "none", arg |-> 0, ret |-> NULL, path |-> "none", iters |-> 0]
Snapshot(S) == [first |-> S.first, current |-> S.current, last |-> S.last, mem |-> S.mem]
NoTest == [pc |-> "off", ptr1 |-> NULL, ptr2 |-> NULL, ptr3 |-> NULL, ptr4 |-> NULL]

InitIn(arenas, t) ==
    /\ \E a \in arenas : memory_start = a[1] /\ memory_end = a[2]
    /\ first = NULL
    /\ current = NULL
    /\ last = NULL
    /\ mem = EmptyMem
    /\ fault = "none"
    /\ live = EmptyMem
    /\ call = NoCall
    /\ old = [first |-> NULL, current |-> NULL, last |-> NULL, mem |-> EmptyMem]
    /\ test = t

Init == InitIn(HostArenas, NoTest)
InitAny == InitIn(AnyArenas, NoTest)
InitTest == InitIn(TestArenas, [NoTest EXCEPT !.pc = "ptr1"])

Install(S) ==
    /\ first' = S.first
    /\ current' = S.current
    /\ last' = S.last
    /\ mem' = S.mem
    /\ fault' = S.fault

InitCall ==
    /\ fault = "none"
    /\ \E g \in Junk : Install(simple_init(State, g))
    /\ call' = [NoCall EXCEPT !.op = "init"]
    /\ old' = Snapshot(State)
    /\ UNCHANGED <<memory_start, memory_end, live>>

MallocCall(size) ==
    /\ fault = "none"
    /\ \E g \in Junk :
         LET r == simple_malloc(State, size, g) IN
         /\ Install(r.st)
         /\ call' = [op |-> "malloc", arg |-> size, ret |-> r.ret, path |-> r.path, iters |-> r.iters]
         /\ live' = IF r.ret = NULL THEN live ELSE Poke(live, r.ret, size)
    /\ old' = Snapshot(State)
    /\ UNCHANGED <<memory_start, memory_end>>

FreeCall(ptr) ==
    /\ fault = "none"
    /\ Install(simple_free(State, ptr))
    /\ call' = [NoCall EXCEPT !.op = "free", !.arg = ptr]
    /\ live' = Drop(live, ptr)
    /\ old' = Snapshot(State)
    /\ UNCHANGED <<memory_start, memory_end>>

\* an explicit call of simple_init
SimpleInit == InitCall /\ UNCHANGED test

\* a call of simple_malloc by a caller that holds fewer than MaxLive pointers
SimpleMalloc ==
    /\ Cardinality(DOMAIN live) < MaxLive
    /\ \E size \in Sizes : MallocCall(size)
    /\ UNCHANGED test

\* a call of simple_free on a live pointer or on NULL
SimpleFree ==
    /\ \E ptr \in (DOMAIN live) \cup {NULL} : FreeCall(ptr)
    /\ UNCHANGED test

\* a second simple_free of a pointer whose block is still on the list and
\* free; simple_free reads the header only, so the payload address of any
\* free block stands for such a pointer
SimpleFreeAgain ==
    /\ \E b \in {a \in DOMAIN mem : GET_FREE(mem, a) = 1} : FreeCall(Wrap(b + HeaderSize))
    /\ UNCHANGED test

Next == SimpleInit \/ SimpleMalloc \/ SimpleFree \/ SimpleFreeAgain

Spec == Init /\ [][Next]_vars

\* the same calls over the arenas of any host
SpecArena == InitAny /\ [][Next]_vars

----------------------------------------------------------------------------
(* test_not_first_fit_strategy, check_mm.c:51-74, on a fresh allocator *)

\* check_mm.c:55-57
TestMalloc123 ==
    /\ test.pc \in {"ptr1", "ptr2", "ptr3"}
    /\ MallocCall(TestSize)
    /\ test' = [test EXCEPT ![test.pc] = call'.ret,
                            !.pc = CASE test.pc = "ptr1" -> "ptr2"
                                     [] test.pc = "ptr2" -> "ptr3"
                                     [] OTHER -> "assert"]

\* check_mm.c:59-61: a failed ck_assert ends the test
TestAssert ==
    /\ test.pc = "assert"
    /\ test' = [test EXCEPT !.pc = IF test.ptr1 # NULL /\ test.ptr2 # NULL /\ test.ptr3 # NULL
                                   THEN "free1" ELSE "aborted"]
    /\ UNCHANGED <<memory_start, memory_end, first, current, last, mem, fault, live, call, old>>

\* check_mm.c:63
TestFree1 ==
    /\ test.pc = "free1"
    /\ FreeCall(test.ptr1)
    /\ test' = [test EXCEPT !.pc = "free3"]

\* check_mm.c:64
TestFree3 ==
    /\ test.pc = "free3"
    /\ FreeCall(test.ptr3)
    /\ test' = [test EXCEPT !.pc = "ptr4"]

\* check_mm.c:66
TestMalloc4 ==
    /\ test.pc = "ptr4"
    /\ MallocCall(TestSize)
    /\ test' = [test EXCEPT !.ptr4 = call'.ret, !.pc = "check"]

NextTest == TestMalloc123 \/ TestAssert \/ TestFree1 \/ TestFree3 \/ TestMalloc4

SpecTest == InitTest /\ [][NextTest]_vars

----------------------------------------------------------------------------
(* Vocabulary of the properties.  X is a snapshot of the allocator. *)

RECURSIVE Chain(_, _, _)
Chain(m, p, seen) ==
    IF p \in seen \/ p \notin DOMAIN m THEN seen
    ELSE Chain(m, GET_NEXT(m, p), seen \cup {p})

\* the headers on the circular list
Blocks(X) == IF X.first = NULL THEN {} ELSE Chain(X.mem, X.first, {})
FreeBlocks(X) == {b \in Blocks(X) : GET_FREE(X.mem, b) = 1}

Rounded(size) == align_up(size, WordSize)
MaxOf(a, b) == IF a >= b THEN a ELSE b

\* the header that ends the run of address-adjacent free blocks starting at p
RECURSIVE RunEnd(_, _)
RunEnd(m, p) ==
    LET n == GET_NEXT(m, p) IN
    IF n > p /\ n \in DOMAIN m /\ GET_FREE(m, n) = 1 THEN RunEnd(m, n) ELSE n

\* some run of free blocks in X spans the rounded request
RunCase(X, size) ==
    \E a \in FreeBlocks(X) : RunEnd(X.mem, a) - a - HeaderSize >= Rounded(size)

\* free blocks a and its address successor hold the rounded request only together
PairAt(X, a, size) ==
    LET b == GET_NEXT(X.mem, a) IN
    /\ a \in FreeBlocks(X)
    /\ b \in FreeBlocks(X)
    /\ a < b
    /\ Rounded(size) > SIZE(X.mem, a)
    /\ Rounded(size) > SIZE(X.mem, b)
    /\ Rounded(size) <= SIZE(X.mem, a) + SIZE(X.mem, b) + HeaderSize

\* some free block of X holds the rounded request by itself
FitCase(X, size) ==
    \E b \in FreeBlocks(X) : SIZE(X.mem, b) >= Rounded(size)

\* [p, p + n) and [q, q + k) share a byte
Overlap(p, n, q, k) == n > 0 /\ k > 0 /\ p < q + k /\ q < p + n

Malloced == call.op = "malloc" /\ old.first # NULL

----------------------------------------------------------------------------
(* The properties *)

\* C1: the byte ranges [p, p + size) of the live allocations, size being the
\* size requested for p, are pairwise disjoint.
C1_LiveRangesDisjoint ==
    \A p, q \in DOMAIN live : p # q => ~Overlap(p, live[p], q, live[q])

\* C2: a non-null pointer returned by simple_malloc(size) is followed by at
\* least max(size, MIN_SIZE) usable bytes before the successor's header.
C2_UsableSizeCoversRequest ==
    (call.op = "malloc" /\ call.ret # NULL)
        => GET_NEXT(mem, call.ret - HeaderSize) - call.ret >= MaxOf(call.arg, MIN_SIZE)

\* C3: for every arena with which initialization succeeds, every non-null
\* pointer returned by simple_malloc is a multiple of the word size.
C3_ReturnedPointerWordAligned ==
    (call.op = "malloc" /\ call.ret # NULL) => call.ret % WordSize = 0

\* C4: with two address-adjacent free blocks that hold the rounded request
\* only together, simple_malloc returns non-null wherever the cursor points.
C4_AdjacentPairServes ==
    (Malloced /\ \E a \in Blocks(old) : PairAt(old, a, call.arg)) => call.ret # NULL

C4_Witness ==
    /\ Malloced
    /\ call.ret # NULL
    /\ \E a \in Blocks(old) : PairAt(old, a, call.arg) /\ old.current # a

\* C5: when some run of k >= 1 address-adjacent free blocks spans at least
\* the rounded request, simple_malloc returns non-null.
C5_FreeRunServes ==
    (Malloced /\ RunCase(old, call.arg)) => call.ret # NULL

\* C6: in test_not_first_fit_strategy on a fresh allocator, whenever the
\* three allocations succeed, p4 is non-null, differs from p1 and is not
\* below p3.
C6_FourthBlockNotFirstFit ==
    test.pc = "check"
        => (test.ptr4 # NULL /\ test.ptr4 # test.ptr1 /\ test.ptr4 >= test.ptr3)

\* the block that follows p3's is free and holds another TestSize bytes
RoomAfterPtr3 ==
    LET b == GET_NEXT(old.mem, test.ptr3 - HeaderSize) IN
    GET_FREE(old.mem, b) = 1 /\ SIZE(old.mem, b) >= Rounded(TestSize)

\* C6 as amended: the same, for the arenas in which the free block that
\* follows p3 still holds 80 bytes when p4 is requested.
C6_FourthBlockAfterThird ==
    (test.pc = "check" /\ RoomAfterPtr3)
        => (test.ptr4 # NULL /\ test.ptr4 # test.ptr1 /\ test.ptr4 >= test.ptr3)

C6_Witness ==
    test.pc = "check" /\ RoomAfterPtr3 /\ test.ptr4 > test.ptr3 /\ test.ptr1 # NULL

\* C7: when some free block on the list holds the rounded request,
\* simple_malloc returns non-null wherever the cursor points.
C7_FittingBlockFound ==
    (Malloced /\ FitCase(old, call.arg)) => call.ret # NULL

\* the only fitting block lies below the cursor: the search has to wrap
C7_Witness ==
    /\ Malloced
    /\ call.ret # NULL
    /\ FitCase(old, call.arg)
    /\ \A b \in FreeBlocks(old) : SIZE(old.mem, b) >= Rounded(call.arg) => b < old.current

\* C8: once initialization has succeeded, every header the allocator has
\* touched lies inside [memory_start, memory_end) and first is below last.
C8_HeadersInsideArena ==
    first # NULL => (fault # "oob" /\ (\A p \in DOMAIN mem : InArena(p)) /\ first < last)

\* C9: simple_init on an initialized allocator changes nothing.
C9_SecondInitNoOp ==
    (call.op = "init" /\ old.first # NULL) => Snapshot(State) = old

C9_Witness ==
    /\ call.op = "init"
    /\ old.first # NULL
    /\ DOMAIN live # {}
    /\ old.current # old.first

\* C10: a simple_malloc that returns null on an initialized allocator leaves
\* the cursor, every successor link and every free flag as they were.
C10_FailedMallocNoEffect ==
    (Malloced /\ call.ret = NULL) => Snapshot(State) = old

C10_Witness ==
    /\ Malloced
    /\ call.ret = NULL
    /\ old.current # old.first
    /\ FreeBlocks(old) # {}
    /\ call.iters > 2

\* the aligned capacity is below two headers plus MIN_SIZE
TooSmall == AlignedEnd - AlignedStart < 2 * HeaderSize + MIN_SIZE

\* C11: in an arena whose aligned capacity is below two headers plus
\* MIN_SIZE, first, last and the cursor stay null, no header is written and
\* every simple_malloc returns null.
C11_TooSmallArenaStaysDead ==
    TooSmall => /\ first = NULL /\ last = NULL /\ current = NULL
                /\ mem = EmptyMem
                /\ fault = "none"
                /\ (call.op = "malloc" => call.ret = NULL)
                /\ live = EmptyMem

\* a second simple_malloc has returned null after an explicit simple_init
C11_Witness ==
    TooSmall /\ call.op = "malloc" /\ call.ret = NULL /\ call.arg = 0 /\ first = NULL

\* the call released ptr although its block was on the list and free
FreedAgain ==
    /\ call.op = "free"
    /\ call.arg # NULL
    /\ (call.arg - HeaderSize) \in FreeBlocks(old)

\* C12: simple_free(NULL), and simple_free of a pointer whose block is on
\* the list and already free, leave the allocator state as it was.
C12_FreeNullOrTwiceNoOp ==
    (call.op = "free" /\ (call.arg = NULL \/ FreedAgain)) => Snapshot(State) = old

\* a double free while the cursor is away from first and a pointer is live
C12_Witness ==
    FreedAgain /\ old.current # old.first /\ DOMAIN live # {}

\* C13: on an initialized allocator the successor links lead from first
\* through strictly increasing addresses to last and from last back to
\* first, and every header in use is on that cycle.
C13_OneAscendingCycle ==
    first # NULL =>
        /\ last \in Blocks(State)
        /\ GET_NEXT(mem, last) = first
        /\ \A b \in Blocks(State) \ {last} : GET_NEXT(mem, b) > b
        /\ \A b \in DOMAIN mem : GET_NEXT(mem, b) \in DOMAIN mem
        /\ DOMAIN mem = Blocks(State)

\* a cycle of five blocks, reached through a split and a merge
C13_Witness ==
    /\ first # NULL
    /\ Cardinality(Blocks(State)) >= 5
    /\ call.path = "merge"

\* bytes taken by the blocks bs: header and usable size of each
RECURSIVE Footprint(_, _)
Footprint(m, bs) ==
    IF bs = {} THEN 0
    ELSE LET b == CHOOSE x \in bs : TRUE
         IN  HeaderSize + SIZE(m, b) + Footprint(m, bs \ {b})

\* C14: on an initialized allocator the blocks tile the aligned arena: the
\* blocks other than last, header and usable size, plus one header for last
\* add up to aligned_end - aligned_start, and last's header takes the final
\* header-sized bytes of the aligned arena.
C14_BlocksTileArena ==
    first # NULL =>
        /\ Footprint(mem, Blocks(State) \ {last}) + HeaderSize = AlignedEnd - AlignedStart
        /\ last = AlignedEnd - HeaderSize

\* C15: every successful simple_malloc(size), on the whole, split and merge
\* paths alike, returns a block whose usable size is less than the
\* word-rounded size plus one header plus MIN_SIZE.
C15_NoSplittableSlack ==
    (Malloced /\ call.ret # NULL) =>
        SIZE(mem, call.ret - HeaderSize) < Rounded(call.arg) + HeaderSize + MIN_SIZE

\* C16: after simple_malloc has split a block, the successor of the free
\* remainder it created is not marked free.
C16_RemainderSuccessorBusy ==
    (Malloced /\ call.ret # NULL /\ call.path = "split") =>
        LET remainder == GET_NEXT(mem, call.ret - HeaderSize)
        IN  GET_FREE(mem, GET_NEXT(mem, remainder)) = 0

\* simple_free(p) on a block that was allocated
FreedBlock == call.arg - HeaderSize
Freed ==
    /\ call.op = "free"
    /\ FreedBlock \in Blocks(old)
    /\ GET_FREE(old.mem, FreedBlock) = 0
    /\ FreedBlock # old.last

\* eager policy: a successor that was free has been spliced out of the list
EagerFree ==
    LET next == GET_NEXT(old.mem, FreedBlock)
    IN  /\ GET_FREE(mem, FreedBlock) = 1
        /\ GET_FREE(old.mem, next) = 1 => next \notin Blocks(State)

\* lazy policy: nothing merged, the cursor is back at first
LazyFree ==
    /\ GET_FREE(mem, FreedBlock) = 1
    /\ Blocks(State) = Blocks(old)
    /\ current = first

\* C17: after simple_free(p) on an allocated block either the block is free
\* and a successor that was free is off the list (eager), or the block is
\* free, nothing is merged and the cursor equals first (lazy).
C17_FreeEagerOrLazy ==
    Freed => EagerFree \/ LazyFree

\* the block the cursor pointed to before the call was free and large enough
CursorFits ==
    /\ GET_FREE(old.mem, old.current) = 1
    /\ SIZE(old.mem, old.current) >= Rounded(call.arg)

\* C18: a simple_malloc search begins at the block the cursor points to, a
\* successful simple_malloc leaves the cursor at the successor of the block
\* handed out, which is on the list, and simple_free leaves the cursor alone.
C18_CursorRule ==
    /\ first # NULL => current \in Blocks(State)
    /\ (Malloced /\ CursorFits) =>
            /\ call.ret = old.current + HeaderSize
            /\ call.iters = 1
    /\ (Malloced /\ call.ret # NULL) =>
            /\ current = GET_NEXT(mem, call.ret - HeaderSize)
            /\ current \in Blocks(State)
    /\ call.op = "free" => current = old.current

\* the cursor's block, not first, served the request although first was
\* free and large enough, and the call absorbed a header
C18_Witness ==
    /\ Malloced /\ CursorFits
    /\ old.current # old.first
    /\ GET_FREE(old.mem, old.first) = 1
    /\ SIZE(old.mem, old.first) >= Rounded(call.arg)
    /\ call.ret = old.current + HeaderSize
    /\ Blocks(State) # Blocks(old)
    /\ Blocks(old) \ Blocks(State) # {}

\* the number of blocks on the list when the search loop is entered
BlocksAtEntry == IF old.first = NULL THEN Cardinality(Blocks(State)) ELSE Cardinality(Blocks(old))

\* C19: every simple_malloc call terminates: the search loop returns a block
\* or comes back to its starting block, after at most as many iterations as
\* there are blocks on the list.
C19_SearchTerminates ==
    call.op = "malloc" =>
        /\ fault # "hang"
        /\ call.iters <= BlocksAtEntry

\* a failed search that went once round a list of five blocks
C19_Witness ==
    /\ Malloced
    /\ call.ret = NULL
    /\ call.iters = 5
    /\ Cardinality(Blocks(old)) = 5
    /\ old.current # old.first

\* the pointers simple_malloc has returned: those still held and the last one
Returned ==
    DOMAIN live \cup (IF call.op = "malloc" /\ call.ret # NULL THEN {call.ret} ELSE {})

\* C20: last stays on the list, allocated and in place; no pointer returned
\* by simple_malloc is last's header or last's payload, and no returned
\* block's usable range contains last's header.
C20_SentinelNeverHandedOut ==
    first # NULL =>
        /\ last \in Blocks(State)
        /\ GET_FREE(mem, last) = 0
        /\ old.first # NULL => last = old.last
        /\ \A p \in Returned :
              /\ p # last
              /\ p # last + HeaderSize
              /\ (p - HeaderSize) \in Blocks(State) \ {last}
              /\ ~Overlap(p, SIZE(mem, p - HeaderSize), last, HeaderSize)

\* simple_malloc(0) handed out the block that ends where last's header begins
C20_Witness ==
    /\ Malloced
    /\ call.arg = 0
    /\ call.ret # NULL
    /\ GET_NEXT(mem, call.ret - HeaderSize) = last
    /\ current = last

====
